---- MODULE Spec2Model ----
(***************************************************************************)
(* Model of src/sync_api.py: the broker synchronisation job.               *)
(*   make_safe_request : HTTP GET with application-level timeout retry     *)
(*   main              : page loop, concat/projection, prepare_data,       *)
(*                       batched upsert with per-record degrade            *)
(*   upsert_batch      : one sink call guarded by a serialization test     *)
(* The upstream API and the remote table are the environment: every        *)
(* response and every sink outcome is a nondeterministic input.            *)
(***************************************************************************)
EXTENDS Integers, Sequences, FiniteSets, TLC

\* ------------------------------------------------------------------ bounds
\* Highest page count the upstream API declares.
MaxPages == 3
\* Most records the upstream result set holds over all pages.
MaxRecords == 3
\* Slice length of the upsert loop; the source uses 50 (sync_api.py:138),
\* scaled down so that full, partial and several batches all occur.
batch_size == 2

\* ------------------------------------------------------- program constants
\* Default of make_safe_request's max_attempts parameter.
max_attempts == 3
\* time.sleep(1) after each page of the loop.
page_pause == 1

\* ------------------------------------------------------------ value model
\* A JSON scalar of a raw record: t is its kind, v its text as a sequence
\* of character chunks ("NUL" stands for the character \x00).
Null == [t |-> "null", v |-> <<>>]
Txt(s) == [t |-> "str", v |-> s]

cols_necessarias == {"idcorretor", "ativo_login", "nome", "documento", "data_cad", "idimobiliaria"}

\* Raw records the upstream API serves.
rawA == [idcorretor |-> Txt(<<"1">>), ativo_login |-> Txt(<<"S">>), nome |-> Txt(<<"Ana">>),
         documento |-> Txt(<<"11">>), data_cad |-> Txt(<<"2024-01-05">>), idimobiliaria |-> Txt(<<"7">>)]
rawB == [idcorretor |-> Txt(<<"2">>), ativo_login |-> Txt(<<"N">>), nome |-> Txt(<<"Bo", "NUL", "b">>),
         documento |-> Null, data_cad |-> Null, idimobiliaria |-> Txt(<<"7">>)]
rawC == [idcorretor |-> Txt(<<"1">>), ativo_login |-> Txt(<<"S">>), nome |-> Txt(<<"Caio">>),
         documento |-> Txt(<<"33">>), data_cad |-> Txt(<<"05/13/24x">>), idimobiliaria |-> Null]
\* A record without the key 'documento', and one without 'documento' and
\* 'data_cad'.
rawD == [idcorretor |-> Txt(<<"3">>), ativo_login |-> Txt(<<"S">>), nome |-> Txt(<<"Davi">>),
         data_cad |-> Txt(<<"2024-01-05", " ", "10:30:00">>), idimobiliaria |-> Txt(<<"7">>)]
rawE == [idcorretor |-> Txt(<<"4">>), ativo_login |-> Txt(<<"N">>), nome |-> Txt(<<"Eva">>),
         idimobiliaria |-> Txt(<<"8">>)]

\* The 'dados' arrays a page response may carry.
PageContents == {<< >>, <<rawA>>, <<rawB, rawC>>, <<rawD, rawE>>}

\* Values of total_de_paginas a response may declare.
TotalChoices == (-1)..MaxPages

\* ---------------------------------------------------------------- helpers
RECURSIVE Flatten(_)
\* pd.concat(dfs, ignore_index=True): rows of the frames in list order.
Flatten(frames) ==
  IF frames = << >> THEN << >> ELSE Head(frames) \o Flatten(Tail(frames))

RECURSIVE Pow2(_)
Pow2(n) == IF n <= 0 THEN 1 ELSE 2 * Pow2(n - 1)

\* ------------------------------------------------------ make_safe_request
\* Variant: the bound test lets one attempt too many through.
CanRetryInclusive(a) == a <= max_attempts

\* if attempt < max_attempts
CanRetry(a) == a < max_attempts

\* Variant: the exponent counts attempts from zero.
wait_time_from_zero(a) == Pow2(a - 1)

\* wait_time = 2 ** attempt
wait_time(a) == Pow2(a)

\* ------------------------------------------------------------ prepare_data
\* str(x) as DataFrame.astype(str) applies it: None gives 'None', NaN 'nan'.
AsStr(x) ==
  IF x.t = "null" THEN <<"N", "o", "n", "e">>
  ELSE IF x.t = "nan" THEN <<"n", "a", "n">>
  ELSE x.v

\* Texts pd.to_datetime parses, with the isoformat() of the timestamp.
ParsableDates == {<<"2024-01-05">>, <<"2024-01-05", " ", "10:30:00">>}
IsoFormat(s) ==
  IF Len(s) = 1 THEN <<s[1], "T", "00:00:00">> ELSE <<s[1], "T", s[3]>>

\* Variant: the timestamp is formatted without the NaT test.
DataCadNaT(s) == IF s \in ParsableDates THEN Txt(IsoFormat(s)) ELSE Txt(<<"NaT">>)

\* pd.to_datetime(errors='coerce') then isoformat(), NaT becoming None.
DataCad(s) == IF s \in ParsableDates THEN Txt(IsoFormat(s)) ELSE Null

\* x.replace('\x00', '') if isinstance(x, str) else x
StripNul(x) ==
  IF x.t = "str" THEN Txt(SelectSeq(x.v, LAMBDA c : c # "NUL")) ELSE x

\* One projected row through prepare_data.  A column the row lacks holds NaN
\* in the frame.
prepare_row(r) ==
  [c \in cols_necessarias |->
     LET x == IF c \in DOMAIN r THEN r[c] ELSE [t |-> "nan", v |-> << >>]
         s == AsStr(x)
     IN  StripNul(IF c = "data_cad" THEN DataCad(s) ELSE Txt(s))]

prepare_data(rows) == [k \in 1..Len(rows) |-> prepare_row(rows[k])]

\* Variant: the frame is built with the projected columns declared.
FrameColumnsDeclared(rows) ==
  cols_necessarias \cup UNION {DOMAIN rows[k] : k \in 1..Len(rows)}

\* Column labels of the concatenated frame.
FrameColumns(rows) == UNION {DOMAIN rows[k] : k \in 1..Len(rows)}

\* ------------------------------------------------------------------- sink
\* Variant: insert-only write, rows are added whatever their idcorretor.
InsertOnly(rows, batch) == rows \o batch

RECURSIVE Upsert(_, _)
\* table.upsert(batch, on_conflict=['idcorretor']): replace the row with the
\* same idcorretor, insert otherwise; records applied in batch order.
Upsert(rows, batch) ==
  IF batch = << >> THEN rows
  ELSE LET r == Head(batch)
           hit == {k \in 1..Len(rows) : rows[k].idcorretor = r.idcorretor}
           applied == IF hit = {} THEN Append(rows, r)
                      ELSE [k \in 1..Len(rows) |-> IF k \in hit THEN r ELSE rows[k]]
       IN  Upsert(applied, Tail(batch))

\* What one call of upsert_batch can meet:
\*   "serial" json.dumps raises, "raise" upsert/execute raises,
\*   "error"  the response carries an error, "ok" the write is applied.
Outcomes == {"ok", "error", "raise", "serial"}

\* Variant: upsert_batch without its try/except lets exceptions escape.
upsert_batch_uncaught(rows, batch, o) ==
  IF o = "serial" THEN [ret |-> FALSE, raised |-> TRUE, rows |-> rows, sent |-> FALSE]
  ELSE IF o = "raise" THEN [ret |-> FALSE, raised |-> TRUE, rows |-> rows, sent |-> TRUE]
  ELSE IF o = "error" THEN [ret |-> FALSE, raised |-> FALSE, rows |-> rows, sent |-> TRUE]
  ELSE [ret |-> TRUE, raised |-> FALSE, rows |-> Upsert(rows, batch), sent |-> TRUE]

\* Variant: the json.dumps test comes after the call of the sink.
upsert_batch_dumps_after(rows, batch, o) ==
  IF o = "serial" THEN [ret |-> FALSE, raised |-> FALSE, rows |-> Upsert(rows, batch), sent |-> TRUE]
  ELSE IF o = "raise" THEN [ret |-> FALSE, raised |-> FALSE, rows |-> rows, sent |-> TRUE]
  ELSE IF o = "error" THEN [ret |-> FALSE, raised |-> FALSE, rows |-> rows, sent |-> TRUE]
  ELSE [ret |-> TRUE, raised |-> FALSE, rows |-> Upsert(rows, batch), sent |-> TRUE]

\* upsert_batch(table, batch) under outcome o: the value returned, whether an
\* exception leaves the function, the table afterwards and whether
\* table.upsert was called.
upsert_batch(rows, batch, o) ==
  IF o = "serial" THEN [ret |-> FALSE, raised |-> FALSE, rows |-> rows, sent |-> FALSE]
  ELSE IF o = "raise" THEN [ret |-> FALSE, raised |-> FALSE, rows |-> rows, sent |-> TRUE]
  ELSE IF o = "error" THEN [ret |-> FALSE, raised |-> FALSE, rows |-> rows, sent |-> TRUE]
  ELSE [ret |-> TRUE, raised |-> FALSE, rows |-> Upsert(rows, batch), sent |-> TRUE]

\* ------------------------------------------------------------------ state
VARIABLES
  pc,           \* position of main
  page,         \* pagina of the request in progress
  attempt,      \* attempt parameter of the innermost make_safe_request
  tries,        \* outcomes of the session.get calls of the request in progress
  waits,        \* arguments of the time.sleep calls of the request in progress
  resp,         \* value returned by make_safe_request
  total_pages,  \* main's total_pages
  dfs,          \* main's dfs
  netlog,       \* requests issued and pauses made by main, in order
  spent,        \* session.get calls made by each request that is over
  dados,        \* main's dados
  i,            \* index of the batch loop
  j,            \* position inside the batch of the per-record loop
  sink,         \* rows of the remote table
  upserts,      \* calls of upsert_batch of this run, in order, with their
                \* outcome and whether table.upsert was reached
  falhas,       \* idcorretor of every 'Falha persistente' line of this run
  concluido,    \* numbers reported by the 'Processo concluido' line
  run,          \* 1 in the first run of the persist stage, 2 in the second
  prev          \* sink and outcome of the previous run of the persist stage

vars == <<pc, page, attempt, tries, waits, resp, total_pages, dfs, netlog, spent,
          dados, i, j, sink, upserts, falhas, concluido, run, prev>>

fetchVars == <<page, attempt, tries, waits, resp, total_pages, dfs, netlog, spent>>
loadVars == <<dados, i, j, sink, upserts, falhas, concluido>>

NoResp == [dados |-> << >>, has_total |-> FALSE, total_de_paginas |-> 0]
NoPrev == [sink |-> << >>, clean |-> FALSE]

Fetch(p) == [op |-> "fetch", arg |-> p]
Sleep(s) == [op |-> "sleep", arg |-> s]

Init ==
  /\ pc = "main"
  /\ page = 0 /\ attempt = 0 /\ tries = << >> /\ waits = << >>
  /\ resp = NoResp
  /\ total_pages = 0
  /\ dfs = << >>
  /\ netlog = << >>
  /\ spent = << >>
  /\ dados = << >>
  /\ i = 0 /\ j = 0
  /\ sink = << >>
  /\ upserts = << >>
  /\ falhas = << >>
  /\ concluido = << >>
  /\ run = 1
  /\ prev = NoPrev

\* ------------------------------------------------------------------ fetch
\* Variant: one attempt counter is shared by all the requests of the run.
CallRequestCarry(p) ==
  /\ pc' = "request"
  /\ page' = p
  /\ attempt' = (IF attempt = 0 THEN 1 ELSE attempt)
  /\ tries' = << >>
  /\ waits' = << >>
  /\ resp' = NoResp

\* main calls make_safe_request for page p: attempt = 1.
CallRequest(p) ==
  /\ pc' = "request"
  /\ page' = p
  /\ attempt' = 1
  /\ tries' = << >>
  /\ waits' = << >>
  /\ resp' = NoResp

\* main, up to the request of page 1.
Start ==
  /\ pc = "main"
  /\ CallRequest(1)
  /\ netlog' = Append(netlog, Fetch(1))
  /\ UNCHANGED <<total_pages, dfs, spent, run, prev>>
  /\ UNCHANGED loadVars

\* session.get returns a 2xx response: make_safe_request returns its JSON.
RequestOk ==
  /\ pc = "request"
  /\ \E d \in PageContents, ht \in BOOLEAN, t \in TotalChoices :
       /\ Len(Flatten(dfs)) + Len(d) <= MaxRecords
       /\ resp' = [dados |-> d, has_total |-> ht, total_de_paginas |-> IF ht THEN t ELSE 0]
  /\ tries' = Append(tries, "ok")
  /\ spent' = Append(spent, Len(tries) + 1)
  /\ pc' = "returned"
  /\ UNCHANGED <<page, attempt, waits, total_pages, dfs, netlog, run, prev>>
  /\ UNCHANGED loadVars

\* requests.exceptions.Timeout with attempt < max_attempts: sleep and recurse.
RequestTimeoutRetry ==
  /\ pc = "request"
  /\ CanRetry(attempt)
  /\ tries' = Append(tries, "timeout")
  /\ waits' = Append(waits, wait_time(attempt))
  /\ attempt' = attempt + 1
  /\ UNCHANGED <<pc, page, resp, total_pages, dfs, netlog, spent, run, prev>>
  /\ UNCHANGED loadVars

\* Variant: the exhausted timeout is swallowed and the run goes on with the
\* pages it has.
RequestTimeoutSwallowed ==
  /\ pc = "request"
  /\ ~CanRetry(attempt)
  /\ tries' = Append(tries, "timeout")
  /\ spent' = Append(spent, Len(tries) + 1)
  /\ pc' = "normalize"
  /\ UNCHANGED <<page, attempt, waits, resp, total_pages, dfs, netlog, run, prev>>
  /\ UNCHANGED loadVars

\* requests.exceptions.Timeout on the last attempt: raise, main re-raises.
RequestTimeoutRaise ==
  /\ pc = "request"
  /\ ~CanRetry(attempt)
  /\ tries' = Append(tries, "timeout")
  /\ spent' = Append(spent, Len(tries) + 1)
  /\ pc' = "Failed"
  /\ UNCHANGED <<page, attempt, waits, resp, total_pages, dfs, netlog, run, prev>>
  /\ UNCHANGED loadVars

\* Variant: a non-timeout failure is retried like a timeout.
RequestErrorRetried ==
  /\ pc = "request"
  /\ tries' = Append(tries, "error")
  /\ IF CanRetry(attempt)
       THEN /\ waits' = Append(waits, wait_time(attempt))
            /\ attempt' = attempt + 1
            /\ UNCHANGED <<pc, spent>>
       ELSE /\ pc' = "Failed"
            /\ spent' = Append(spent, Len(tries) + 1)
            /\ UNCHANGED <<waits, attempt>>
  /\ UNCHANGED <<page, resp, total_pages, dfs, netlog, run, prev>>
  /\ UNCHANGED loadVars

\* Any other RequestException: printed and raised, main re-raises.
RequestError ==
  /\ pc = "request"
  /\ tries' = Append(tries, "error")
  /\ spent' = Append(spent, Len(tries) + 1)
  /\ pc' = "Failed"
  /\ UNCHANGED <<page, attempt, waits, resp, total_pages, dfs, netlog, run, prev>>
  /\ UNCHANGED loadVars

\* The page count main reads from the first response.
TotalOf(r) == IF r.has_total THEN r.total_de_paginas ELSE 1

\* Variant: the page count is read again from every response.
NextPageRecheck ==
  /\ pc = "returned"
  /\ LET tp == TotalOf(resp)
         paused == IF page = 1 THEN netlog ELSE Append(netlog, Sleep(page_pause))
     IN  /\ total_pages' = tp
         /\ dfs' = Append(dfs, resp.dados)
         /\ IF page + 1 <= tp
              THEN /\ CallRequest(page + 1)
                   /\ netlog' = Append(paused, Fetch(page + 1))
              ELSE /\ pc' = "normalize"
                   /\ netlog' = paused
                   /\ UNCHANGED <<page, attempt, tries, waits, resp>>
  /\ UNCHANGED <<spent, run, prev>>
  /\ UNCHANGED loadVars

\* Variant: the pause follows every fetch, the first one included.
NextPagePauseAlways ==
  /\ pc = "returned"
  /\ LET tp == IF page = 1 THEN TotalOf(resp) ELSE total_pages
         paused == Append(netlog, Sleep(page_pause))
     IN  /\ total_pages' = tp
         /\ dfs' = Append(dfs, resp.dados)
         /\ IF page + 1 <= tp
              THEN /\ CallRequest(page + 1)
                   /\ netlog' = Append(paused, Fetch(page + 1))
              ELSE /\ pc' = "normalize"
                   /\ netlog' = paused
                   /\ UNCHANGED <<page, attempt, tries, waits, resp>>
  /\ UNCHANGED <<spent, run, prev>>
  /\ UNCHANGED loadVars

\* main after a request returned: keep the page, pause after a page of the
\* loop, then request the next page or leave the loop.
NextPage ==
  /\ pc = "returned"
  /\ LET tp == IF page = 1 THEN TotalOf(resp) ELSE total_pages
         paused == IF page = 1 THEN netlog ELSE Append(netlog, Sleep(page_pause))
     IN  /\ total_pages' = tp
         /\ dfs' = Append(dfs, resp.dados)
         /\ IF page + 1 <= tp
              THEN /\ CallRequest(page + 1)
                   /\ netlog' = Append(paused, Fetch(page + 1))
              ELSE /\ pc' = "normalize"
                   /\ netlog' = paused
                   /\ UNCHANGED <<page, attempt, tries, waits, resp>>
  /\ UNCHANGED <<spent, run, prev>>
  /\ UNCHANGED loadVars

\* -------------------------------------------------------------- normalize
\* main: pd.concat, projection on cols_necessarias (KeyError when the frame
\* lacks one of them), prepare_data, to_dict('records'); the batch loop is
\* entered when there is a record.  The requests are over: their locals and
\* their history end here.
Normalize ==
  /\ pc = "normalize"
  /\ LET rows == Flatten(dfs)
     IN  IF ~(cols_necessarias \subseteq FrameColumns(rows))
           THEN /\ pc' = "Failed"
                /\ UNCHANGED <<dados, concluido>>
           ELSE /\ dados' = prepare_data(rows)
                /\ IF Len(rows) = 0
                     THEN pc' = "Done" /\ concluido' = <<0>>
                     ELSE pc' = "batch" /\ UNCHANGED concluido
  /\ i' = 0
  /\ page' = 0 /\ attempt' = 0 /\ tries' = << >> /\ waits' = << >>
  /\ resp' = NoResp /\ spent' = << >>
  /\ UNCHANGED <<total_pages, dfs, netlog, j, sink, upserts, falhas, run, prev>>

\* ---------------------------------------------------------------- persist
total_registros == Len(dados)

\* Variant: the slice runs one record into the next one.
BatchAtOverlap(k) ==
  SubSeq(dados, k + 1, IF k + batch_size + 1 < total_registros THEN k + batch_size + 1 ELSE total_registros)

\* dados[i:i + batch_size]
BatchAt(k) ==
  SubSeq(dados, k + 1, IF k + batch_size < total_registros THEN k + batch_size ELSE total_registros)

\* Variant: the final line reports the end of the last slice, not len(dados).
AdvanceBatchSliceEnd ==
  IF i + batch_size < total_registros
    THEN /\ i' = i + batch_size
         /\ pc' = "batch"
         /\ UNCHANGED concluido
    ELSE /\ pc' = "Done"
         /\ concluido' = <<i + batch_size>>
         /\ UNCHANGED i

\* Variant: after the last slice the job starts over instead of ending.
AdvanceBatchRestart ==
  IF i + batch_size < total_registros
    THEN /\ i' = i + batch_size
         /\ pc' = "batch"
         /\ UNCHANGED concluido
    ELSE /\ pc' = "main"
         /\ concluido' = <<total_registros>>
         /\ UNCHANGED i

\* The batch loop moves to the next slice, or ends and the run reports.
AdvanceBatch ==
  IF i + batch_size < total_registros
    THEN /\ i' = i + batch_size
         /\ pc' = "batch"
         /\ UNCHANGED concluido
    ELSE /\ pc' = "Done"
         /\ concluido' = <<total_registros>>
         /\ UNCHANGED i

\* Variant: the test of the batch result is inverted.
BatchUpsertInverted ==
  /\ pc = "batch"
  /\ \E o \in Outcomes :
       LET batch == BatchAt(i)
           r == upsert_batch(sink, batch, o)
       IN  /\ sink' = r.rows
           /\ upserts' = Append(upserts, [lvl |-> "batch", batch |-> batch, res |-> o, sent |-> r.sent])
           /\ IF r.raised
                THEN pc' = "Failed" /\ UNCHANGED <<i, j, concluido>>
                ELSE IF ~r.ret
                THEN AdvanceBatch /\ UNCHANGED j
                ELSE /\ pc' = "record"
                     /\ j' = 1
                     /\ UNCHANGED <<i, concluido>>
  /\ UNCHANGED <<dados, falhas, run, prev>>
  /\ UNCHANGED fetchVars

\* upsert_batch(tabela, batch) of the batch loop.
BatchUpsert ==
  /\ pc = "batch"
  /\ \E o \in Outcomes :
       LET batch == BatchAt(i)
           r == upsert_batch(sink, batch, o)
       IN  /\ sink' = r.rows
           /\ upserts' = Append(upserts, [lvl |-> "batch", batch |-> batch, res |-> o, sent |-> r.sent])
           /\ IF r.raised
                THEN pc' = "Failed" /\ UNCHANGED <<i, j, concluido>>
                ELSE IF r.ret
                THEN AdvanceBatch /\ UNCHANGED j
                ELSE /\ pc' = "record"
                     /\ j' = 1
                     /\ UNCHANGED <<i, concluido>>
  /\ UNCHANGED <<dados, falhas, run, prev>>
  /\ UNCHANGED fetchVars

\* Variant: the per-record loop stops at the first record that fails.
RecordUpsertBreak ==
  /\ pc = "record"
  /\ \E o \in Outcomes :
       LET record == BatchAt(i)[j]
           r == upsert_batch(sink, <<record>>, o)
       IN  /\ sink' = r.rows
           /\ upserts' = Append(upserts, [lvl |-> "record", batch |-> <<record>>, res |-> o, sent |-> r.sent])
           /\ IF r.raised
                THEN /\ pc' = "Failed"
                     /\ UNCHANGED <<i, j, concluido, falhas>>
                ELSE /\ falhas' = IF r.ret THEN falhas ELSE Append(falhas, record.idcorretor)
                     /\ IF r.ret /\ j < Len(BatchAt(i))
                          THEN /\ j' = j + 1
                               /\ UNCHANGED <<pc, i, concluido>>
                          ELSE AdvanceBatch /\ UNCHANGED j
  /\ UNCHANGED <<dados, run, prev>>
  /\ UNCHANGED fetchVars

\* upsert_batch(tabela, [record]) of the per-record loop, with the
\* 'Falha persistente' line when it returns False.
RecordUpsert ==
  /\ pc = "record"
  /\ \E o \in Outcomes :
       LET record == BatchAt(i)[j]
           r == upsert_batch(sink, <<record>>, o)
       IN  /\ sink' = r.rows
           /\ upserts' = Append(upserts, [lvl |-> "record", batch |-> <<record>>, res |-> o, sent |-> r.sent])
           /\ IF r.raised
                THEN /\ pc' = "Failed"
                     /\ UNCHANGED <<i, j, concluido, falhas>>
                ELSE /\ falhas' = IF r.ret THEN falhas ELSE Append(falhas, record.idcorretor)
                     /\ IF j < Len(BatchAt(i))
                          THEN /\ j' = j + 1
                               /\ UNCHANGED <<pc, i, concluido>>
                          ELSE AdvanceBatch /\ UNCHANGED j
  /\ UNCHANGED <<dados, run, prev>>
  /\ UNCHANGED fetchVars

\* The persist stage alone is run a second time, on the same dados and
\* against the same table; nothing of the fetch stage belongs to that run.
AllOk(calls) == \A k \in 1..Len(calls) : calls[k].res = "ok"

Rerun ==
  /\ pc = "Done"
  /\ run = 1
  /\ total_registros > 0
  /\ run' = run + 1
  /\ prev' = [sink |-> sink, clean |-> AllOk(upserts)]
  /\ pc' = "batch"
  /\ i' = 0 /\ j' = 0
  /\ upserts' = << >>
  /\ falhas' = << >>
  /\ concluido' = << >>
  /\ total_pages' = 0 /\ dfs' = << >> /\ netlog' = << >>
  /\ UNCHANGED <<dados, sink, page, attempt, tries, waits, resp, spent>>

Next ==
  \/ Start
  \/ RequestOk
  \/ RequestTimeoutRetry
  \/ RequestTimeoutRaise
  \/ RequestError
  \/ NextPage
  \/ Normalize
  \/ BatchUpsert
  \/ RecordUpsert
  \/ Rerun

Spec == Init /\ [][Next]_vars

\* Each sink call is a blocking call that returns or raises, so the two
\* loops of the persist stage keep stepping.
LiveSpec == Init /\ [][Next]_vars /\ WF_vars(BatchUpsert) /\ WF_vars(RecordUpsert)

TypeOK ==
  /\ pc \in {"main", "request", "returned", "normalize", "batch", "record", "Done", "Failed"}
  /\ attempt \in 0..max_attempts
  /\ run \in {1, 2}
  /\ i \in 0..MaxRecords /\ j \in 0..batch_size

\* ================================================================ claims
Range(f) == {f[k] : k \in DOMAIN f}

\* The call of the batch loop at position k of upserts returned False.
BatchFailedAt(k) == upserts[k].lvl = "batch" /\ upserts[k].res # "ok"

RECURSIVE FailedIds(_)
\* idcorretor of the per-record calls that returned False, in call order.
FailedIds(calls) ==
  IF calls = << >> THEN << >>
  ELSE LET c == Head(calls)
       IN  (IF c.lvl = "record" /\ c.res # "ok" THEN <<c.batch[1].idcorretor>> ELSE << >>)
             \o FailedIds(Tail(calls))

\* Record m of call k is the last successful write of its idcorretor so far.
LastWriteOf(k, m) ==
  LET key == upserts[k].batch[m].idcorretor
  IN  /\ \A m2 \in (m + 1)..Len(upserts[k].batch) : upserts[k].batch[m2].idcorretor # key
      /\ \A k2 \in (k + 1)..Len(upserts) :
           upserts[k2].res = "ok" =>
             \A m2 \in 1..Len(upserts[k2].batch) : upserts[k2].batch[m2].idcorretor # key

\* C1 - Batch degrade isolation: after a batch call that failed, the next
\* calls are one per-record call for each record of that batch, in source
\* order, none missing once the loop has moved on and none repeated; the
\* persistent failures logged are exactly the records whose per-record call
\* failed; and every record written by a successful call is in the table.
C1_DegradeIsolation ==
  /\ \A k \in 1..Len(upserts) :
       BatchFailedAt(k) =>
         LET b == upserts[k].batch
         IN  /\ \A m \in 1..Len(b) :
                  k + m <= Len(upserts) =>
                    /\ upserts[k + m].lvl = "record"
                    /\ upserts[k + m].batch = <<b[m]>>
             /\ k + Len(b) < Len(upserts) => upserts[k + Len(b) + 1].lvl = "batch"
             /\ k + Len(b) > Len(upserts) => pc = "record" /\ Len(upserts) = k + j - 1
  /\ falhas = FailedIds(upserts)
  /\ \A k \in 1..Len(upserts) :
       upserts[k].res = "ok" =>
         \A m \in 1..Len(upserts[k].batch) :
           LastWriteOf(k, m) => upserts[k].batch[m] \in Range(sink)

\* A full batch failed, exactly one of its records failed individually and
\* the other one was stored.
C1_Witness ==
  /\ pc = "Done"
  /\ Len(upserts) >= 1 + batch_size
  /\ BatchFailedAt(1)
  /\ Len(upserts[1].batch) = batch_size
  /\ upserts[2].res = "ok"
  /\ \A m \in 2..batch_size : upserts[1 + m].res # "ok"
  /\ Len(falhas) = batch_size - 1

\* C2 - Timeout retry bound: one request never makes more than max_attempts
\* attempts, and a request whose attempts all timed out and that is over
\* made exactly max_attempts attempts and failed the run.
C2_TimeoutRetryBound ==
  /\ Len(tries) <= max_attempts
  /\ (tries # << >> /\ pc # "request" /\ \A k \in 1..Len(tries) : tries[k] = "timeout")
       => (Len(tries) = max_attempts /\ pc = "Failed")

C2_Witness ==
  /\ pc = "Failed"
  /\ Len(tries) = max_attempts
  /\ \A k \in 1..Len(tries) : tries[k] = "timeout"

\* C3 - Backoff schedule: the k-th wait of a request is 2^k seconds, one wait
\* follows each timeout that is not the last permitted attempt, and nothing
\* else waits; a request that timed out once and then succeeded waited 2 s once.
C3_BackoffSchedule ==
  /\ \A k \in 1..Len(waits) : waits[k] = Pow2(k) /\ tries[k] = "timeout" /\ k < max_attempts
  /\ Len(waits) = Cardinality({k \in 1..Len(tries) : tries[k] = "timeout" /\ k < max_attempts})
  /\ tries = <<"timeout", "ok">> => waits = <<2>>
  /\ (Len(tries) >= 3 /\ tries[1] = "timeout" /\ tries[2] = "timeout") =>
       (waits[1] = 2 /\ waits[2] = 4)

C3_Witness == pc = "returned" /\ tries = <<"timeout", "ok">> /\ waits = <<2>>

\* C4 - Non-timeout immediate failure: a non-timeout failure is the last
\* attempt of its request, the run is failed, and no wait follows it.
C4_NonTimeoutImmediate ==
  \A k \in 1..Len(tries) :
    tries[k] = "error" =>
      /\ k = Len(tries)
      /\ pc = "Failed"
      /\ Len(waits) = k - 1

C4_Witness == pc = "Failed" /\ Len(tries) = 2 /\ tries[2] = "error" /\ Len(waits) = 1

\* The requests main issued, in order.
Fetches == SelectSeq(netlog, LAMBDA e : e.op = "fetch")

\* The page loop of this run is over and no request failed.
FetchComplete ==
  /\ run = 1
  /\ \/ pc \in {"normalize", "batch", "record", "Done"}
     \/ pc = "Failed" /\ tries = << >>

\* C5 - Pagination completeness: the requests carry pagina 1, 2, ... in
\* order; when no fetch failed there are exactly total_pages of them (one
\* when that is below 1); total_pages is set from the first response and
\* never from a later one; each returned page is appended to the pages kept,
\* and the records to persist are those pages' records in page order.
C5_PaginationCompleteness ==
  /\ [](/\ \A k \in 1..Len(Fetches) : Fetches[k].arg = k
        /\ FetchComplete =>
             /\ Len(Fetches) = (IF total_pages < 1 THEN 1 ELSE total_pages)
             /\ Len(dfs) = Len(Fetches)
        /\ (run = 1 /\ pc \in {"batch", "record", "Done"}) =>
             /\ Len(dados) = Len(Flatten(dfs))
             /\ \A k \in 1..Len(dados) : dados[k].idcorretor = Flatten(dfs)[k].idcorretor)
  /\ [][pc = "returned" =>
          /\ dfs' = Append(dfs, resp.dados)
          /\ total_pages' = (IF page = 1 THEN TotalOf(resp) ELSE total_pages)]_vars

\* Three pages were fetched and their records kept in page order.
C5_Witness ==
  /\ pc = "Done"
  /\ total_pages = 3
  /\ Len(Fetches) = 3
  /\ dfs = << <<rawA>>, << >>, <<rawB, rawC>> >>
  /\ Len(dados) = 3

\* C6 - Inter-page pacing, as claimed: the request of page 1 is the first
\* thing main does on the network and every later request comes right after
\* a 1-second pause.
C6_PauseBetweenFetches ==
  \A k \in 1..Len(netlog) :
    netlog[k].op = "fetch" =>
      IF netlog[k].arg = 1 THEN k = 1
      ELSE k > 1 /\ netlog[k - 1] = Sleep(1)

\* A propagated failure ended the request in progress.
FetchFailed ==
  /\ tries # << >>
  /\ \/ tries[Len(tries)] = "error"
     \/ Len(tries) >= max_attempts /\ tries[Len(tries)] = "timeout"

\* C7 - Fatal fetch, no partial persistence: a request that ended in a
\* propagated failure leaves the run in Failed, a failed run has issued no
\* upsert and written nothing, and nothing happens after Failed.
C7_FatalFetch ==
  /\ [](/\ FetchFailed => pc = "Failed"
        /\ pc = "Failed" => (upserts = << >> /\ sink = << >> /\ dados = << >>))
  /\ [][pc # "Failed"]_vars

\* The request of a later page failed after a page with records was kept.
C7_Witness ==
  /\ pc = "Failed"
  /\ FetchFailed
  /\ page >= 2
  /\ Flatten(dfs) # << >>

RECURSIVE BatchesOf(_)
\* The batches the batch loop submitted, concatenated in submission order.
BatchesOf(calls) ==
  IF calls = << >> THEN << >>
  ELSE (IF Head(calls).lvl = "batch" THEN Head(calls).batch ELSE << >>)
         \o BatchesOf(Tail(calls))

Persisting == pc \in {"batch", "record"}

\* C8 - Persisting always completes: a step taken in the upsert loop stays in
\* the loop or reaches Done, whatever the sink answers; in Done every batch
\* of dados has been submitted; and the loop, once entered, reaches Done.
C8_PersistingCompletes ==
  /\ [][Persisting => (Persisting' \/ pc' = "Done")]_vars
  /\ [](pc = "Done" => BatchesOf(upserts) = dados)
  /\ (Persisting ~> pc = "Done")

\* Done was reached although a batch call and a per-record call raised.
C8_Witness ==
  /\ pc = "Done"
  /\ \E k \in 1..Len(upserts) : upserts[k].lvl = "batch" /\ upserts[k].res = "raise"
  /\ \E k \in 1..Len(upserts) : upserts[k].lvl = "record" /\ upserts[k].res = "serial"
  /\ \E k \in 1..Len(upserts) : upserts[k].lvl = "batch" /\ upserts[k].res = "error"

KeysUnique(rows) ==
  \A a, b \in 1..Len(rows) : rows[a].idcorretor = rows[b].idcorretor => a = b

\* C10 - Idempotent rerun: when the sink accepted every write of two
\* successive runs of the persist stage on the same dados, the table after
\* the second run equals the table after the first, one row per idcorretor.
C10_IdempotentRerun ==
  (run = 2 /\ pc = "Done" /\ prev.clean /\ AllOk(upserts)) =>
    /\ sink = prev.sink
    /\ KeysUnique(sink)

\* Second clean run over records of which two share an idcorretor.
C10_Witness ==
  /\ run = 2 /\ pc = "Done" /\ prev.clean /\ AllOk(upserts)
  /\ Len(dados) = 3
  /\ Len(sink) = 2

\* The calls of the batch loop, in order.
BatchCalls == SelectSeq(upserts, LAMBDA c : c.lvl = "batch")

\* Number of slices range(0, n, b) yields.
CeilDiv(n, b) == (n + b - 1) \div b

\* C11 - Batch partition: every batch submitted holds between 1 and
\* batch_size records, only the last one of the run may hold fewer than
\* batch_size, the batches concatenated are the records up to the current
\* slice and all of dados in Done; when the sink accepted every call there
\* are ceil(n / batch_size) calls, all of the batch loop, and the run is on
\* its way to Done (537 records in slices of 50 give 11).
C11_BatchPartition ==
  /\ \A k \in 1..Len(BatchCalls) :
       /\ Len(BatchCalls[k].batch) \in 1..batch_size
       /\ BatchCalls[k].batch = SubSeq(dados, (k - 1) * batch_size + 1,
                                       (k - 1) * batch_size + Len(BatchCalls[k].batch))
       /\ (k < Len(BatchCalls) \/ (k - 1) * batch_size + Len(BatchCalls[k].batch) < total_registros)
            => Len(BatchCalls[k].batch) = batch_size
  /\ pc = "Done" => BatchesOf(upserts) = dados
  /\ AllOk(upserts) =>
       /\ pc # "Failed" \/ upserts = << >>
       /\ Len(BatchCalls) = Len(upserts)
       /\ pc = "Done" => Len(upserts) = CeilDiv(total_registros, batch_size)
  /\ CeilDiv(537, 50) = 11

\* All records went through in full batches and a shorter last one, and the
\* sink accepted each.
C11_Witness ==
  /\ pc = "Done"
  /\ AllOk(upserts)
  /\ total_registros > batch_size
  /\ Len(upserts) = CeilDiv(total_registros, batch_size)
  /\ Len(upserts[Len(upserts)].batch) < batch_size

\* The fetched records of this run, in the order of the concatenated frame.
Fetched == Flatten(dfs)

\* The first run went past normalization: dados is the image of Fetched.
Normalized == run = 1 /\ pc \in {"batch", "record", "Done"}

\* C12 - Schema mismatch is fatal, as claimed: once the pages are in and a
\* fetched record lacks one of the six projected columns, the run is Failed
\* and nothing was submitted or written.
C12_SchemaMismatchFatal ==
  (FetchComplete /\ pc # "normalize"
     /\ \E k \in 1..Len(Fetched) : ~(cols_necessarias \subseteq DOMAIN Fetched[k]))
    => (pc = "Failed" /\ upserts = << >> /\ sink = << >>)

\* C13 - Normalized value invariant, as claimed: dados has the fetched
\* records in their order; every value is an explicit null or a text without
\* NUL; a null or absent source value of a field other than data_cad comes
\* out as an explicit null or the empty text; a text without NUL of such a
\* field comes out unchanged.
C13_NormalizedValues ==
  Normalized =>
    /\ Len(dados) = Len(Fetched)
    /\ \A k \in 1..Len(dados) : \A c \in cols_necessarias :
         LET out == dados[k][c]
             absent == c \notin DOMAIN Fetched[k]
         IN  /\ out.t \in {"null", "str"}
             /\ out.t = "str" => "NUL" \notin Range(out.v)
             /\ (c # "data_cad" /\ (absent \/ Fetched[k][c].t = "null"))
                  => (out = Null \/ out = Txt(<< >>))
             /\ (c # "data_cad" /\ ~absent /\ Fetched[k][c].t = "str"
                   /\ "NUL" \notin Range(Fetched[k][c].v))
                  => out = Fetched[k][c]

\* The source value of data_cad of a fetched record is a text pd.to_datetime
\* parses.
HasParsableDate(r) ==
  /\ "data_cad" \in DOMAIN r
  /\ r.data_cad.t = "str"
  /\ r.data_cad.v \in ParsableDates

C15_PageCountEdge ==
  /\ [][(pc = "returned" /\ page = 1 /\ (~resp.has_total \/ resp.total_de_paginas <= 1))
          => (pc' = "normalize" /\ netlog' = netlog /\ dfs' = <<resp.dados>>)]_vars
  /\ []((FetchComplete /\ total_pages <= 1) =>
          /\ netlog = <<Fetch(1)>>
          /\ Len(dfs) = 1
          /\ Normalized => Len(dados) = Len(dfs[1]))

\* Page 1 declared zero pages and the run went on with its records alone.
C15_Witness ==
  /\ Normalized
  /\ total_pages = 0
  /\ netlog = <<Fetch(1)>>
  /\ Len(dados) = Len(dfs[1])

\* C16 - Serialization check before submission: a call whose json.dumps test
\* fails never reaches table.upsert, every other call does; the failing call
\* leaves the table as it is and does not fail the run; a batch that fails
\* the test is followed by the per-record call of its first record.
C16_SerializationFirst ==
  /\ [](\A k \in 1..Len(upserts) :
          /\ upserts[k].sent = (upserts[k].res # "serial")
          /\ (upserts[k].res = "serial" /\ upserts[k].lvl = "batch") =>
               IF k < Len(upserts)
                 THEN /\ upserts[k + 1].lvl = "record"
                      /\ upserts[k + 1].batch = <<upserts[k].batch[1]>>
                 ELSE pc = "record")
  /\ [][(Len(upserts') = Len(upserts) + 1 /\ upserts'[Len(upserts')].res = "serial")
          => (sink' = sink /\ pc' # "Failed")]_vars

\* A batch and then one of its records failed the test, and the run ended.
C16_Witness ==
  /\ pc = "Done"
  /\ Len(upserts) >= 2
  /\ upserts[1].lvl = "batch" /\ upserts[1].res = "serial" /\ ~upserts[1].sent
  /\ upserts[2].lvl = "record" /\ upserts[2].res = "serial"
  /\ sink = << >>

\* Rank of the stage main is in.
Stage ==
  CASE pc \in {"main", "request", "returned"} -> 1
    [] pc = "normalize" -> 2
    [] pc \in {"batch", "record"} -> 3
    [] pc = "Done" -> 4
    [] OTHER -> 5

\* C17 - Stage ordering: within a run main stays in its stage, moves to the
\* next one, or fails from one of the first three; there is no upsert and
\* no written row before the persist stage; when there is an upsert every
\* requested page was kept and every fetched record normalized; and no
\* request or pause follows an upsert.
C17_StageOrdering ==
  /\ [][run' = run =>
          \/ Stage' = Stage
          \/ Stage' = Stage + 1 /\ Stage <= 3
          \/ pc' = "Failed" /\ Stage <= 3]_vars
  /\ [](Stage <= 2 => (upserts = << >> /\ sink = << >>))
  /\ []((run = 1 /\ upserts # << >>) =>
          /\ pc \in {"batch", "record", "Done"}
          /\ Len(dfs) = Len(Fetches)
          /\ Len(dados) = Len(Fetched))
  /\ [][(upserts # << >> /\ run' = run) => netlog' = netlog]_vars

\* A run over several pages reached Done after sink calls.
C17_Witness ==
  /\ run = 1 /\ pc = "Done"
  /\ Len(Fetches) >= 2
  /\ Len(upserts) >= 2

\* Index of the last call of the batch loop up to call k, 0 when none.
LastBatchCall(k) ==
  LET bs == {m \in 1..k : upserts[m].lvl = "batch"}
  IN  IF bs = {} THEN 0 ELSE CHOOSE m \in bs : \A n \in bs : n <= m

\* Index in dados of the first record of the slice call k belongs to.
SliceStart(k) ==
  (Cardinality({m \in 1..k : upserts[m].lvl = "batch"}) - 1) * batch_size

\* Indexes in dados of the records call k submits.
PosOf(k) ==
  IF upserts[k].lvl = "batch"
    THEN {SliceStart(k) + m : m \in 1..Len(upserts[k].batch)}
    ELSE {SliceStart(k) + (k - LastBatchCall(k))}

\* C18 - Bounded re-submission: every call submits the records of dados at
\* its own indexes; an index is submitted by at most one call of the batch
\* loop and at most one per-record call; a per-record call comes after a
\* failed call of the batch loop, belongs to that batch and precedes the
\* next batch; and a successful batch is followed by the next batch.
C18_BoundedResubmission ==
  /\ \A k \in 1..Len(upserts) :
       /\ PosOf(k) \subseteq 1..Len(dados)
       /\ upserts[k].lvl = "batch" =>
            /\ \A m \in 1..Len(upserts[k].batch) : upserts[k].batch[m] = dados[SliceStart(k) + m]
            /\ (upserts[k].res = "ok" /\ k < Len(upserts)) => upserts[k + 1].lvl = "batch"
            /\ (upserts[k].res = "ok" /\ k = Len(upserts)) => pc \in {"batch", "Done"}
       /\ upserts[k].lvl = "record" =>
            /\ LastBatchCall(k) >= 1
            /\ upserts[LastBatchCall(k)].res # "ok"
            /\ k - LastBatchCall(k) <= Len(upserts[LastBatchCall(k)].batch)
            /\ upserts[k].batch = <<dados[SliceStart(k) + (k - LastBatchCall(k))]>>
  /\ \A p \in 1..Len(dados) :
       /\ Cardinality({k \in 1..Len(upserts) : upserts[k].lvl = "batch" /\ p \in PosOf(k)}) <= 1
       /\ Cardinality({k \in 1..Len(upserts) : upserts[k].lvl = "record" /\ p \in PosOf(k)}) <= 1

\* A failed batch was retried record by record, the next batch was accepted.
C18_Witness ==
  /\ pc = "Done"
  /\ Len(upserts) = batch_size + 2
  /\ upserts[1].lvl = "batch" /\ upserts[1].res = "error"
  /\ \A m \in 1..batch_size : upserts[1 + m].lvl = "record"
  /\ upserts[batch_size + 2].lvl = "batch" /\ upserts[batch_size + 2].res = "ok"

RECURSIVE SumSeq(_)
SumSeq(q) == IF q = << >> THEN 0 ELSE Head(q) + SumSeq(Tail(q))

\* session.get calls of the run so far.
AttemptsMade == SumSeq(spent) + (IF pc = "request" THEN Len(tries) ELSE 0)

\* C19 - Per-page retry budget: every request starts at attempt 1 with no
\* attempt on its account; a request makes between 1 and max_attempts
\* attempts; the run makes at most max_attempts attempts per page requested,
\* and requests at most total_pages pages (one when that is below 1); a
\* request whose max_attempts attempts timed out fails the run on its own
\* page, and nothing is requested after that.
C19_PerPageBudget ==
  /\ [][(pc' = "request" /\ pc # "request") => (attempt' = 1 /\ tries' = << >>)]_vars
  /\ [](/\ \A k \in 1..Len(spent) : spent[k] \in 1..max_attempts
        /\ AttemptsMade <= Len(Fetches) * max_attempts
        /\ Len(Fetches) <= (IF total_pages < 1 THEN 1 ELSE total_pages)
        /\ (Len(tries) = max_attempts /\ tries[max_attempts] = "timeout") =>
             (pc = "Failed" /\ Len(Fetches) = page /\ Len(dfs) = page - 1))
  /\ [][pc = "Failed" => netlog' = netlog]_vars

\* Page 1 used all its attempts, and so did page 2 after it.
C19_Witness ==
  /\ pc = "returned"
  /\ page = 2
  /\ spent = <<max_attempts, max_attempts>>

\* C20 - Empty result set: Done is never reached with no record; when all
\* the pages were fetched and none carried a record the run is Failed with
\* no upsert, no written row and no final report.
C20_EmptyResultSet ==
  /\ pc = "Done" => (total_registros > 0 /\ concluido # <<0>>)
  /\ (FetchComplete /\ pc # "normalize" /\ Fetched = << >>) =>
       (pc = "Failed" /\ upserts = << >> /\ sink = << >> /\ concluido = << >>)

\* Two pages without a record ended the run in Failed.
C20_Witness ==
  /\ pc = "Failed"
  /\ run = 1 /\ tries = << >>
  /\ Len(dfs) = 2
  /\ Fetched = << >>

====
